---- MODULE Spec2Model ----
(***************************************************************************)
(* konsone: the 3-slot circular buffer (src/src/tribuf.rs) and the         *)
(* keypress statistics store (src/src/store.rs).                           *)
(*                                                                         *)
(* Time is counted in ticks of 1/TicksPerSec second since UNIX_EPOCH, so   *)
(* that Duration::as_secs (which drops the sub-second part) is a real      *)
(* conversion.  Table counts are u32 in the source; the bounds keep them   *)
(* far below 2^32, so the increment is modelled without wrap-around.       *)
(***************************************************************************)
EXTENDS Integers, Sequences, FiniteSets, TLC

(* ------------------------------ bounds -------------------------------- *)

\* Ticks per second of the modelled clock (sub-second resolution).
TicksPerSec == 2
\* Number of KeyPress events a run processes.
MaxPresses == 3
\* Seconds between the epoch and the earliest OS clock reading of a run.
BaseSecs == 10
\* Buffer<i32> runs: values 0..MaxVal, at most MaxPushes pushes.
MaxVal == 2
MaxPushes == 5
MaxDraws == 3
MaxWritten == 4

(* ------------------------- program constants -------------------------- *)

MAX_KEY_DELAY == 2
SAVE_INTERVAL == 600

(* --------------------------- std::time -------------------------------- *)

UNIX_EPOCH == 0
KEYMAP_BIGRAM_SECS == 2
KEYMAP_TRIGRAM_SECS == 4
KEYMAP_SAVE_SECS == 10

\* SystemTime::duration_since: Ok(later - earlier), Err when earlier is later.
duration_since(later, earlier) ==
    IF later >= earlier
    THEN [ok |-> TRUE, val |-> later - earlier]
    ELSE [ok |-> FALSE, val |-> earlier - later]

\* Duration::as_secs: whole seconds, sub-second part dropped.
as_secs(d) == d \div TicksPerSec

\* Duration::from_secs
from_secs(s) == s * TicksPerSec

(* ------------------------------ tribuf -------------------------------- *)

\* Buffer::new with the given Default value of T.
BufferNew(dflt) == [data |-> <<dflt, dflt, dflt>>, cursor |-> 0]

\* Buffer::push (data is 0-indexed in the source, 1-indexed here).
Push(b, value) ==
    [data |-> [b.data EXCEPT ![b.cursor + 1] = value],
     cursor |-> (b.cursor + 1) % 3]

\* A to_vec that walks the slots oldest to newest (the .rev() forgotten).
ToVecForward(b) ==
    [k \in 1..3 |-> b.data[((b.cursor + (k - 1)) % 3) + 1]]

\* Buffer::to_vec: i runs over cursor+2, cursor+1, cursor; takes data[i % 3].
ToVec(b) ==
    [k \in 1..3 |-> b.data[((b.cursor + (3 - k)) % 3) + 1]]

(* ------------------------------ events -------------------------------- *)

Unknown0 == "Unknown0"

\* Option<String>: <<>> is None, <<s>> is Some(s).
None == <<>>
Some(s) == <<s>>

\* Earliest timestamp of a real event: real events are stamped by the OS
\* clock, which reads BaseSecs seconds after the epoch or later.
BaseTime == BaseSecs * TicksPerSec

\* Event timestamps: BaseTime, one tick less than MAX_KEY_DELAY seconds later,
\* and exactly MAX_KEY_DELAY seconds later.
EventTimes ==
    {BaseTime} \cup { BaseTime + from_secs(MAX_KEY_DELAY) - k : k \in {0, 1} }

\* KeyPress events the listener delivers: key, OS interpretation, time.
PressEvents ==
    { [event_type |-> [tag |-> "KeyPress", key |-> kn[1]], name |-> kn[2], time |-> t] :
        kn \in {<<"KeyA", Some("a")>>, <<"KeyB", None>>}, t \in EventTimes }

\* Events of the other kinds: a key release and a pointer event.
NonPressEvents ==
    { [event_type |-> [tag |-> "KeyRelease", key |-> "KeyA"], name |-> None, time |-> t] :
        t \in {BaseTime} }
    \cup
    { [event_type |-> [tag |-> "MouseMove", key |-> Unknown0], name |-> None, time |-> t] :
        t \in {BaseTime} }

\* A placeholder stamped with a current time instead of the epoch.
DefaultEventNow ==
    [event_type |-> [tag |-> "KeyPress", key |-> Unknown0], name |-> None,
     time |-> BaseTime]

\* impl Default for EventWrapper
DefaultEvent ==
    [event_type |-> [tag |-> "KeyPress", key |-> Unknown0], name |-> None,
     time |-> UNIX_EPOCH]

\* event_to_keystroke: <<key, interpreted>>
event_to_keystroke(e) ==
    << IF e.event_type.tag \in {"KeyPress", "KeyRelease"} THEN e.event_type.key ELSE Unknown0,
       IF e.name = None THEN "" ELSE e.name[1] >>

\* A delay check that takes a failed duration_since for a zero delay.
is_within_delay_lenient(e1, e2) ==
    LET d == duration_since(e1.time, e2.time)
    IN  as_secs(IF d.ok THEN d.val ELSE 0) < MAX_KEY_DELAY

\* A delay check with an inclusive threshold.
is_within_delay_inclusive(e1, e2) ==
    LET d == duration_since(e1.time, e2.time)
    IN  as_secs(IF d.ok THEN d.val ELSE from_secs(MAX_KEY_DELAY + 1)) <= MAX_KEY_DELAY

\* is_within_delay
is_within_delay(e1, e2) ==
    LET d == duration_since(e1.time, e2.time)
    IN  as_secs(IF d.ok THEN d.val ELSE from_secs(MAX_KEY_DELAY + 1)) < MAX_KEY_DELAY

(* ------------------------------ tables -------------------------------- *)

EmptyMap == [k \in {} |-> 0]

\* HashMap::entry(k).or_insert(0) followed by *count += 1
Increment(m, k) ==
    [x \in DOMAIN m \cup {k} |-> IF x = k THEN (IF k \in DOMAIN m THEN m[k] ELSE 0) + 1 ELSE m[x]]

\* An update that overwrites the entry with 1 instead of counting.
update_heatmap_insert(h, e) ==
    LET ks == event_to_keystroke(e)
    IN  [x \in DOMAIN h \cup {ks} |-> IF x = ks THEN 1 ELSE h[x]]

\* An update that drops the OS interpretation of the key.
update_heatmap_keyonly(h, e) == Increment(h, <<event_to_keystroke(e)[1], "">>)

update_heatmap(h, e) == Increment(h, event_to_keystroke(e))

\* A bigram update with the two keystrokes swapped.
update_bigram_swapped(b, e1, e2) ==
    Increment(b, <<event_to_keystroke(e2), event_to_keystroke(e1)>>)

update_bigram(b, e1, e2) ==
    Increment(b, <<event_to_keystroke(e1), event_to_keystroke(e2)>>)

\* An update that counts a trigram twice.
update_trigram_twice(t, e1, e2, e3) ==
    LET k == <<event_to_keystroke(e1), event_to_keystroke(e2), event_to_keystroke(e3)>>
    IN  Increment(Increment(t, k), k)

update_trigram(t, e1, e2, e3) ==
    Increment(t, <<event_to_keystroke(e1), event_to_keystroke(e2), event_to_keystroke(e3)>>)

RECURSIVE SumOver(_, _)
SumOver(m, ks) ==
    IF ks = {} THEN 0
    ELSE LET k == CHOOSE x \in ks : TRUE IN m[k] + SumOver(m, ks \ {k})

\* Sum of all counts of a table.
Total(m) == SumOver(m, DOMAIN m)

(* ------------------------------- store -------------------------------- *)

VARIABLES
    heatmap,     \* Store.heatmap: Keystroke -> count
    bigram,      \* Store.bigram: (Keystroke, Keystroke) -> count
    trigram,     \* Store.trigram: (Keystroke, Keystroke, Keystroke) -> count
    ngrams,      \* Store.ngrams: Buffer<EventWrapper>
    last_save,   \* Store.last_save
    file,        \* content of the file named Store.filename
    now,         \* the system clock (SystemTime::now)
    presses,     \* history: number of KeyPress events processed
    ignored,     \* history: the last call was a process_event that dropped its event
    saveTried,   \* history: the save attempted by the last call, "no" | "ok" | "err"
    buf,         \* a Buffer<i32>
    pushed,      \* history: the values pushed to buf, oldest first
    out,         \* the result of the last to_vec call on buf
    pending,     \* history: failed saves inside process_event since the last successful save
    clockBack,   \* history: the system clock has gone backwards
    panicked,    \* the process has panicked
    gen,         \* the Generator of a generate run
    drawn,       \* history: the indices drawn by the generator, oldest first
    lastWeights, \* history: the weight vector of the generator's last draw
    written,     \* number of keystrokes written to corpus.dat, modulo MaxWritten
    pc           \* position of the generate command: "start", "loop", "done"

storeVars == <<heatmap, bigram, trigram, ngrams, last_save, file>>
histVars == <<presses, ignored, saveTried>>
bufVars == <<buf, pushed, out>>
persistVars == <<pending, clockBack>>
genVars == <<gen, drawn, lastWeights, written, pc>>
vars == <<heatmap, bigram, trigram, ngrams, last_save, file, now, presses, ignored,
          saveTried, buf, pushed, out, pending, clockBack, panicked, gen, drawn,
          lastWeights, written, pc>>

\* Clock readings: the start, and later by the save interval exactly, by one
\* tick more, and by one second more.
ClockValues ==
    {BaseTime} \cup { BaseTime + from_secs(SAVE_INTERVAL) + k : k \in {0, 1, TicksPerSec} }

\* Outcomes of Store::save: success, File::create fails, serde_bare::to_writer fails.
SaveOutcomes == {"ok", "create_err", "write_err"}

\* The fields of a store as a record.
StoreRec ==
    [heatmap |-> heatmap, bigram |-> bigram, trigram |-> trigram, ngrams |-> ngrams,
     last_save |-> last_save]

\* File contents: no file, a file cut short by a failed write, a serialized store.
Absent == [state |-> "absent", content |-> <<>>]
Truncated == [state |-> "truncated", content |-> <<>>]
Written(s) == [state |-> "written", content |-> <<s>>]

\* A save that records the time before it writes.
save_eager(s, f, nowv, outcome) ==
    CASE outcome = "create_err" -> [store |-> s, file |-> f]
      [] outcome = "write_err"  -> [store |-> [s EXCEPT !.last_save = nowv],
                                    file |-> Truncated]
      [] OTHER                  -> [store |-> [s EXCEPT !.last_save = nowv],
                                    file |-> Written(s)]

\* Store::save: File::create truncates the file, to_writer writes the store as it
\* is before last_save is set; last_save is set only after both succeeded.
save(s, f, nowv, outcome) ==
    CASE outcome = "create_err" -> [store |-> s, file |-> f]
      [] outcome = "write_err"  -> [store |-> s, file |-> Truncated]
      [] OTHER                  -> [store |-> [s EXCEPT !.last_save = nowv],
                                    file |-> Written(s)]

\* An update whose trigram check is independent of the bigram check and spans
\* the two gaps together (the variant of keymap/src/store/mod.rs).
update_tables_unchained(s, ew) ==
    LET ng == Push(s.ngrams, ew)
        events == ToVec(ng)
        h == update_heatmap(s.heatmap, events[1])
        d1 == duration_since(events[1].time, events[2].time)
        d2 == duration_since(events[1].time, events[3].time)
        b == IF d1.ok /\ as_secs(d1.val) < 2
             THEN update_bigram(s.bigram, events[2], events[1]) ELSE s.bigram
        t == IF d2.ok /\ as_secs(d2.val) < 4
             THEN update_trigram(s.trigram, events[3], events[2], events[1]) ELSE s.trigram
    IN  [s EXCEPT !.ngrams = ng, !.heatmap = h, !.bigram = b, !.trigram = t]

\* Store::update, first part: push, snapshot, table updates.
update_tables(s, ew) ==
    LET ng == Push(s.ngrams, ew)
        events == ToVec(ng)
        h == update_heatmap(s.heatmap, events[1])
        w1 == is_within_delay(events[1], events[2])
        w2 == w1 /\ is_within_delay(events[2], events[3])
        b == IF w1 THEN update_bigram(s.bigram, events[2], events[1]) ELSE s.bigram
        t == IF w2 THEN update_trigram(s.trigram, events[3], events[2], events[1])
             ELSE s.trigram
    IN  [s EXCEPT !.ngrams = ng, !.heatmap = h, !.bigram = b, !.trigram = t]

\* A save check that skips the save when elapsed() fails.
save_due_skip_err(last, nowv) ==
    LET elapsed == duration_since(nowv, last)
    IN  IF elapsed.ok THEN as_secs(elapsed.val) > SAVE_INTERVAL ELSE FALSE

\* Store::update, second part: is a save attempted at clock reading nowv?
save_due(last, nowv) ==
    LET elapsed == duration_since(nowv, last)
    IN  IF elapsed.ok THEN as_secs(elapsed.val) > SAVE_INTERVAL ELSE TRUE

\* What a caller sees of a save: Ok or Err.
Tried(outcome) == IF outcome = "ok" THEN "ok" ELSE "err"

\* Store::update: the result of a save error is logged and dropped.
update(s, f, ew, nowv, outcome) ==
    LET s1 == update_tables(s, ew)
    IN  IF save_due(s1.last_save, nowv)
        THEN save(s1, f, nowv, outcome) @@ [tried |-> Tried(outcome)]
        ELSE [store |-> s1, file |-> f, tried |-> "no"]

\* A dispatch that also counts key releases.
accepts_release_too(e) == e.event_type.tag \in {"KeyPress", "KeyRelease"}

\* Store::process_event: the match on the event type.
accepts(e) == e.event_type.tag = "KeyPress"

\* No generator built yet.
NoGenerator ==
    [built |-> FALSE, keystrokes |-> <<>>, weights |-> <<>>, bigram_lookup |-> <<>>,
     trigram_lookup |-> <<>>, preceeding |-> <<None, None>>]

SetStore(s) ==
    /\ heatmap' = s.heatmap
    /\ bigram' = s.bigram
    /\ trigram' = s.trigram
    /\ ngrams' = s.ngrams
    /\ last_save' = s.last_save

Init ==
    /\ heatmap = EmptyMap
    /\ bigram = EmptyMap
    /\ trigram = EmptyMap
    /\ ngrams = BufferNew(DefaultEvent)
    /\ now = BaseTime
    /\ last_save = BaseTime
    /\ file = Absent
    /\ presses = 0
    /\ ignored = FALSE
    /\ saveTried = "no"
    /\ buf = BufferNew(0)
    /\ pushed = <<>>
    /\ out = <<>>
    /\ pending = 0
    /\ clockBack = FALSE
    /\ panicked = FALSE
    /\ gen = NoGenerator
    /\ drawn = <<>>
    /\ lastWeights = <<>>
    /\ written = 0
    /\ pc = "start"

\* Store::process_event(e); outcome is what a save would end with if attempted.
process_event(e, outcome) ==
    /\ e.event_type.tag = "KeyPress" => presses < MaxPresses
    /\ IF accepts(e)
       THEN LET r == update(StoreRec, file, e, now, outcome)
            IN  /\ SetStore(r.store)
                /\ file' = r.file
                /\ saveTried' = r.tried
       ELSE /\ UNCHANGED storeVars
            /\ saveTried' = "no"
    /\ presses' = IF e.event_type.tag = "KeyPress" THEN presses + 1 ELSE presses
    /\ ignored' = (e.event_type.tag # "KeyPress")
    /\ UNCHANGED <<now, buf, pushed, out>>

\* A save has an outcome only where one is attempted.
ProcessPress ==
    /\ \E e \in PressEvents, o \in SaveOutcomes :
        /\ save_due(last_save, now) \/ o = "ok"
        /\ process_event(e, o)
    /\ UNCHANGED <<persistVars, panicked, genVars>>

ProcessOther ==
    /\ \E e \in NonPressEvents : process_event(e, "ok")
    /\ UNCHANGED <<persistVars, panicked, genVars>>

\* A direct call of Store::save that ends with the given outcome.
save_call(o) ==
    LET r == save(StoreRec, file, now, o)
    IN  /\ SetStore(r.store)
        /\ file' = r.file
        /\ saveTried' = Tried(o)
        /\ ignored' = FALSE
        /\ UNCHANGED <<now, presses, buf, pushed, out>>

Save ==
    /\ \E o \in SaveOutcomes : save_call(o)
    /\ UNCHANGED <<persistVars, panicked, genVars>>

\* The system clock moves (time passes, or the clock is set back).
SetClock ==
    /\ \E t \in ClockValues : t # now /\ now' = t
    /\ UNCHANGED <<storeVars, histVars, bufVars, persistVars, panicked, genVars>>

Next == ProcessPress \/ ProcessOther \/ Save \/ SetClock

Spec == Init /\ [][Next]_vars

(* ------------------------- Buffer<i32> runs --------------------------- *)

Values == 0..MaxVal

BufPush ==
    /\ Len(pushed) < MaxPushes
    /\ \E v \in Values :
        /\ buf' = Push(buf, v)
        /\ pushed' = Append(pushed, v)
    /\ UNCHANGED <<out, storeVars, now, histVars, persistVars, panicked, genVars>>

BufToVec ==
    /\ out' = ToVec(buf)
    /\ UNCHANGED <<buf, pushed, storeVars, now, histVars, persistVars, panicked, genVars>>

NextBuffer == BufPush \/ BufToVec

SpecBuffer == Init /\ [][NextBuffer]_vars

(* ---------------------- persistence: save and load -------------------- *)

\* serde of SystemTime: whole seconds and the sub-second part since the epoch.
TimeBytes(t) == <<t \div TicksPerSec, t % TicksPerSec>>
TimeOf(b) == b[1] * TicksPerSec + b[2]

\* serde of rdev::Event: event type with its key, name, time.
EventBytes(e) == <<e.event_type.tag, e.event_type.key, e.name, TimeBytes(e.time)>>
EventOf(b) ==
    [event_type |-> [tag |-> b[1], key |-> b[2]], name |-> b[3], time |-> TimeOf(b[4])]

RECURSIVE MapBytesOver(_, _)
MapBytesOver(m, ks) ==
    IF ks = {} THEN <<>>
    ELSE LET k == CHOOSE x \in ks : TRUE
         IN  <<<<k, m[k]>>>> \o MapBytesOver(m, ks \ {k})

\* serde of a HashMap: its entries one after the other, in the map's iteration order.
MapBytes(m) == MapBytesOver(m, DOMAIN m)

\* A HashMap collected from decoded entries: a later entry replaces an earlier one.
MapOf(b) ==
    [k \in {b[i][1] : i \in DOMAIN b} |->
        b[CHOOSE i \in DOMAIN b : b[i][1] = k /\ \A j \in DOMAIN b : j > i => b[j][1] # k][2]]

\* A Store whose trigram field is left out of the serialized form.
to_writer_skip_trigram(s) ==
    << MapBytes(s.heatmap), MapBytes(s.bigram), <<>>,
       [i \in 1..3 |-> EventBytes(s.ngrams.data[i])], s.ngrams.cursor,
       TimeBytes(s.last_save) >>

\* serde_bare::to_writer(file, &self) with the derived Serialize of Store: the
\* fields in declaration order (the file name, which never changes, left out).
to_writer(s) ==
    << MapBytes(s.heatmap), MapBytes(s.bigram), MapBytes(s.trigram),
       [i \in 1..3 |-> EventBytes(s.ngrams.data[i])], s.ngrams.cursor,
       TimeBytes(s.last_save) >>

\* serde_bare::from_reader with the derived Deserialize of Store.
from_reader(b) ==
    IF Len(b) # 6 THEN [ok |-> FALSE]
    ELSE [ok |-> TRUE,
          store |-> [heatmap |-> MapOf(b[1]), bigram |-> MapOf(b[2]),
                     trigram |-> MapOf(b[3]),
                     ngrams |-> [data |-> [i \in 1..3 |-> EventOf(b[4][i])],
                                 cursor |-> b[5]],
                     last_save |-> TimeOf(b[6])]]

\* The bytes of a file: a written file holds the encoding of the store it was
\* written from, a file cut short holds no complete store.
FileBytes(f) == IF f.state = "written" THEN to_writer(f.content[1]) ELSE <<>>

\* load: decode a store from the bytes of an opened file.
load(f) == from_reader(FileBytes(f))

\* Store::new at clock reading nowv.
StoreNew(nowv) ==
    [heatmap |-> EmptyMap, bigram |-> EmptyMap, trigram |-> EmptyMap,
     ngrams |-> BufferNew(DefaultEvent), last_save |-> nowv]

\* KeyPress events of the persistence runs: both keys, stamped BaseTime.
PersistEvents == { e \in PressEvents : e.time = BaseTime }

\* process_event of a KeyPress; pending counts the failed saves made inside
\* process_event since the last save that succeeded.
PersistPress ==
    /\ \E e \in PersistEvents, o \in SaveOutcomes :
        /\ save_due(last_save, now) \/ o = "ok"
        /\ process_event(e, o)
        /\ pending' = IF ~save_due(last_save, now) THEN pending
                      ELSE IF o = "ok" THEN 0 ELSE pending + 1
    /\ UNCHANGED <<clockBack, panicked, genVars>>

PersistSave ==
    /\ \E o \in SaveOutcomes :
        /\ save_call(o)
        /\ pending' = IF o = "ok" THEN 0 ELSE pending
    /\ UNCHANGED <<clockBack, panicked, genVars>>

PersistClock ==
    /\ \E t \in ClockValues :
        /\ t # now
        /\ now' = t
        /\ clockBack' = (clockBack \/ t < now)
    /\ UNCHANGED <<storeVars, histVars, bufVars, pending, panicked, genVars>>

\* The log command starts again: the store is loaded from the file, or created
\* when the file cannot be opened or decoded.
Restart ==
    /\ LET r == IF file.state = "absent" THEN [ok |-> FALSE] ELSE load(file)
       IN  SetStore(IF r.ok THEN r.store ELSE StoreNew(now))
    /\ saveTried' = "no"
    /\ ignored' = FALSE
    /\ pending' = 0
    /\ UNCHANGED <<file, now, presses, clockBack, bufVars, panicked, genVars>>

NextPersist == PersistPress \/ PersistSave \/ PersistClock \/ Restart

SpecPersist == Init /\ [][NextPersist]_vars

(* ------------------------------ generator ----------------------------- *)

\* The orders in which a HashMap with key set S may be iterated.
Orders(S) ==
    { q \in [1..Cardinality(S) -> S] : \A i, j \in 1..Cardinality(S) : q[i] = q[j] => i = j }

\* HashMap::get(..).unwrap_or(&Vec::new()): the entries under k, none if absent.
Lookup(m, k) == IF k \in DOMAIN m THEN m[k] ELSE {}

RECURSIVE SumWeights(_)
SumWeights(es) ==
    IF es = {} THEN 0
    ELSE LET e == CHOOSE x \in es : TRUE IN e[2] + SumWeights(es \ {e})

\* for_each(|(i, w)| weights[*i] += w) over the (index, weight) entries es.
AddAll(w, es) == [i \in DOMAIN w |-> w[i] + SumWeights({ e \in es : e[1] = i })]

\* A constructor whose base weights are one less than the counts.
GeneratorNewZeroBased(keys, h, b, t) ==
    LET keylookup == [k \in DOMAIN h |-> CHOOSE i \in 1..Len(keys) : keys[i] = k]
    IN  [built |-> TRUE,
         keystrokes |-> keys,
         weights |-> [i \in 1..Len(keys) |-> h[keys[i]] - 1],
         bigram_lookup |->
            [index \in { keylookup[k[1]] : k \in DOMAIN b } |->
                { <<keylookup[k[2]], b[k]>> :
                    k \in { x \in DOMAIN b : keylookup[x[1]] = index } }],
         trigram_lookup |->
            [index \in { <<keylookup[k[1]], keylookup[k[2]]>> : k \in DOMAIN t } |->
                { <<keylookup[k[3]], t[k]>> :
                    k \in { x \in DOMAIN t : <<keylookup[x[1]], keylookup[x[2]]>> = index } }],
         preceeding |-> <<None, None>>]

\* Generator::new, keys being the order in which the unigram map is iterated.
\* Indices count from 1. The entries of a lookup vector have distinct targets
\* (map keys are distinct), so the vector is kept as a set.
GeneratorNew(keys, h, b, t) ==
    LET keylookup == [k \in DOMAIN h |-> CHOOSE i \in 1..Len(keys) : keys[i] = k]
    IN  [built |-> TRUE,
         keystrokes |-> keys,
         weights |-> [i \in 1..Len(keys) |-> h[keys[i]]],
         bigram_lookup |->
            [index \in { keylookup[k[1]] : k \in DOMAIN b } |->
                { <<keylookup[k[2]], b[k]>> :
                    k \in { x \in DOMAIN b : keylookup[x[1]] = index } }],
         trigram_lookup |->
            [index \in { <<keylookup[k[1]], keylookup[k[2]]>> : k \in DOMAIN t } |->
                { <<keylookup[k[3]], t[k]>> :
                    k \in { x \in DOMAIN t : <<keylookup[x[1]], keylookup[x[2]]>> = index } }],
         preceeding |-> <<None, None>>]

\* keylookup[&k.0] panics for a key that is not in the unigram map.
NewPanics(h, b, t) ==
    \/ \E k \in DOMAIN b : k[1] \notin DOMAIN h \/ k[2] \notin DOMAIN h
    \/ \E k \in DOMAIN t : k[1] \notin DOMAIN h \/ k[2] \notin DOMAIN h \/ k[3] \notin DOMAIN h

\* The weights of a draw without the trigram part.
DrawWeightsNoTrigram(g) ==
    IF g.preceeding[1] # None
    THEN AddAll(g.weights, Lookup(g.bigram_lookup, g.preceeding[1][1]))
    ELSE g.weights

\* generate_random_keystroke, first part: the weights handed to WeightedIndex::new.
\* preceeding[1] is the newest index (preceeding[0] in the source).
DrawWeights(g) ==
    LET w1 == IF g.preceeding[1] # None
              THEN AddAll(g.weights, Lookup(g.bigram_lookup, g.preceeding[1][1]))
              ELSE g.weights
    IN  IF g.preceeding[2] # None
        THEN AddAll(w1, Lookup(g.trigram_lookup,
                               <<g.preceeding[2][1], g.preceeding[1][1]>>))
        ELSE w1

\* The indices WeightedIndex can sample: those of positive weight.
Sample(w) == { i \in DOMAIN w : w[i] > 0 }

\* generate_random_keystroke panics: preceeding[0].unwrap() on None, or
\* WeightedIndex::new fails (no item, or all weights zero).
DrawPanics(g) ==
    \/ g.preceeding[2] # None /\ g.preceeding[1] = None
    \/ Sample(DrawWeights(g)) = {}

\* A shift that puts the drawn index in the older slot.
ShiftReversed(preceeding, index) == <<preceeding[1], Some(index)>>

\* self.preceeding[1] = self.preceeding[0]; self.preceeding[0] = Some(index).
Shift(preceeding, index) == <<Some(index), preceeding[1]>>

\* generate_random_keystroke when index is sampled: the generator afterwards.
generate_random_keystroke(g, index) ==
    [g EXCEPT !.preceeding = Shift(g.preceeding, index)]

\* Iterator::next: always Some; the possible items are the possible samples.
next(g) == { Some(i) : i \in Sample(DrawWeights(g)) }

\* KeyPress events of the generator runs: both keys, a gap of 0 s or 2 s.
GenEvents ==
    { e \in PressEvents : e.time \in {BaseTime, BaseTime + from_secs(MAX_KEY_DELAY)} }

\* The log command processes a press; the store has not yet been saved.
GenPress ==
    /\ file.state = "absent"
    /\ pc = "start"
    /\ ~panicked
    /\ \E e \in GenEvents : process_event(e, "ok")
    /\ UNCHANGED <<persistVars, panicked, genVars>>

\* The store is saved for the generate command to read.
GenSave ==
    /\ file.state = "absent"
    /\ pc = "start"
    /\ ~panicked
    /\ save_call("ok")
    /\ UNCHANGED <<persistVars, panicked, genVars>>

\* generate, up to the loop: open and load the db (a panic if either fails),
\* then Generator::new from the loaded tables.
Build ==
    /\ pc = "start"
    /\ ~panicked
    /\ LET r == IF file.state = "absent" THEN [ok |-> FALSE] ELSE load(file)
       IN  IF ~r.ok \/ NewPanics(r.store.heatmap, r.store.bigram, r.store.trigram)
           THEN /\ panicked' = TRUE
                /\ UNCHANGED genVars
           ELSE /\ \E keys \in Orders(DOMAIN r.store.heatmap) :
                      gen' = GeneratorNew(keys, r.store.heatmap, r.store.bigram,
                                          r.store.trigram)
                /\ pc' = "loop"
                /\ UNCHANGED <<panicked, drawn, lastWeights, written>>
    /\ UNCHANGED <<storeVars, now, histVars, bufVars, persistVars>>

\* One call of generate_random_keystroke.
Draw ==
    /\ gen.built
    /\ ~panicked
    /\ Len(drawn) < MaxDraws
    /\ IF DrawPanics(gen)
       THEN /\ panicked' = TRUE
            /\ UNCHANGED genVars
       ELSE /\ \E index \in Sample(DrawWeights(gen)) :
                  /\ gen' = generate_random_keystroke(gen, index)
                  /\ drawn' = Append(drawn, index)
            /\ lastWeights' = DrawWeights(gen)
            /\ UNCHANGED <<panicked, written, pc>>
    /\ UNCHANGED <<storeVars, now, histVars, bufVars, persistVars>>

NextGen == GenPress \/ GenSave \/ Build \/ Draw

SpecGen == Init /\ [][NextGen]_vars

\* Outcomes of outf.write.
WriteOutcomes == {"ok", "err"}

\* One iteration of `for ks in corpus`: next() is matched, the loop ends on
\* None, and the keystroke of Some is written; a failed write panics.
GenerateStep ==
    /\ pc = "loop"
    /\ ~panicked
    /\ IF DrawPanics(gen)
       THEN /\ panicked' = TRUE
            /\ UNCHANGED genVars
       ELSE \E item \in next(gen), wr \in WriteOutcomes :
              IF item = None
              THEN /\ pc' = "done"
                   /\ UNCHANGED <<panicked, gen, drawn, lastWeights, written>>
              ELSE /\ gen' = generate_random_keystroke(gen, item[1])
                   /\ IF wr = "ok"
                      THEN /\ written' = (written + 1) % MaxWritten
                           /\ UNCHANGED panicked
                      ELSE /\ panicked' = TRUE
                           /\ UNCHANGED written
                   /\ UNCHANGED <<drawn, lastWeights, pc>>
    /\ UNCHANGED <<storeVars, now, histVars, bufVars, persistVars>>

NextGenerate == GenPress \/ GenSave \/ Build \/ GenerateStep

\* The generate command runs on once started: its steps are taken when enabled.
SpecGenerate ==
    /\ Init
    /\ [][NextGenerate]_vars
    /\ WF_vars(Build)
    /\ WF_vars(GenerateStep)

(* ------------------------- typing at a fixed clock -------------------- *)

\* process_event of a KeyPress while no save is due.
TypePress ==
    /\ \E e \in PressEvents : process_event(e, "ok")
    /\ UNCHANGED <<persistVars, panicked, genVars>>

TypeOther ==
    /\ \E e \in NonPressEvents : process_event(e, "ok")
    /\ UNCHANGED <<persistVars, panicked, genVars>>

NextTyping == TypePress \/ TypeOther

SpecTyping == Init /\ [][NextTyping]_vars

(* ------------------- the store of keymap/src/store/mod.rs ------------- *)

\* keymap Store::update, first part: push, snapshot, heatmap, then the two
\* checks, each of which unwraps duration_since and so panics when the newest
\* event is stamped earlier than the other one; what was updated before the
\* panic stays updated.
keymap_tables(s, ew) ==
    LET ng == Push(s.ngrams, ew)
        events == ToVec(ng)
        h == update_heatmap(s.heatmap, events[1])
        d1 == duration_since(events[1].time, events[2].time)
        d2 == duration_since(events[1].time, events[3].time)
        s1 == [s EXCEPT !.ngrams = ng, !.heatmap = h]
    IN  IF ~d1.ok THEN [store |-> s1, panic |-> TRUE]
        ELSE LET s2 == IF as_secs(d1.val) < KEYMAP_BIGRAM_SECS
                       THEN [s1 EXCEPT !.bigram =
                                update_bigram(s.bigram, events[2], events[1])]
                       ELSE s1
             IN  IF ~d2.ok THEN [store |-> s2, panic |-> TRUE]
                 ELSE IF as_secs(d2.val) < KEYMAP_TRIGRAM_SECS
                      THEN [store |-> [s2 EXCEPT !.trigram =
                                update_trigram(s.trigram, events[3], events[2], events[1])],
                            panic |-> FALSE]
                      ELSE [store |-> s2, panic |-> FALSE]

\* keymap Store::update, second part: is a save attempted at clock reading nowv?
keymap_save_due(last, nowv) ==
    LET elapsed == duration_since(nowv, last)
    IN  IF elapsed.ok THEN as_secs(elapsed.val) > KEYMAP_SAVE_SECS ELSE TRUE

\* keymap Store::update.
keymap_update(s, f, ew, nowv, outcome) ==
    LET r == keymap_tables(s, ew)
    IN  IF r.panic
        THEN [store |-> r.store, file |-> f, tried |-> "no", panic |-> TRUE]
        ELSE IF keymap_save_due(r.store.last_save, nowv)
             THEN save(r.store, f, nowv, outcome)
                    @@ [tried |-> Tried(outcome), panic |-> FALSE]
             ELSE [store |-> r.store, file |-> f, tried |-> "no", panic |-> FALSE]

\* Clock readings of the keymap runs: the start, and 11 s later.
KeymapClockValues == {BaseTime, BaseTime + from_secs(KEYMAP_SAVE_SECS + 1)}

\* keymap Store::process_event(e).
keymap_process_event(e, outcome) ==
    /\ ~panicked
    /\ e.event_type.tag = "KeyPress" => presses < MaxPresses
    /\ IF accepts(e)
       THEN LET r == keymap_update(StoreRec, file, e, now, outcome)
            IN  /\ SetStore(r.store)
                /\ file' = r.file
                /\ saveTried' = r.tried
                /\ panicked' = r.panic
       ELSE /\ UNCHANGED storeVars
            /\ saveTried' = "no"
            /\ UNCHANGED panicked
    /\ presses' = IF e.event_type.tag = "KeyPress" THEN presses + 1 ELSE presses
    /\ ignored' = (e.event_type.tag # "KeyPress")
    /\ UNCHANGED <<now, bufVars, persistVars, genVars>>

KeymapPress ==
    \E e \in PressEvents, o \in SaveOutcomes :
        /\ keymap_save_due(last_save, now) \/ o = "ok"
        /\ keymap_process_event(e, o)

KeymapOther == \E e \in NonPressEvents : keymap_process_event(e, "ok")

KeymapClock ==
    /\ ~panicked
    /\ \E t \in KeymapClockValues : t # now /\ now' = t
    /\ UNCHANGED <<storeVars, histVars, bufVars, persistVars, panicked, genVars>>

NextKeymap == KeymapPress \/ KeymapOther \/ KeymapClock

SpecKeymap == Init /\ [][NextKeymap]_vars

(* ------------------------------ claims -------------------------------- *)

\* Count of key k in table m, 0 when absent.
CountOf(m, k) == IF k \in DOMAIN m THEN m[k] ELSE 0

\* Table m2 is table m with the count of k raised by exactly 1, nothing else changed.
IncrementedAt(m, m2, k) ==
    /\ DOMAIN m2 = DOMAIN m \cup {k}
    /\ \A x \in DOMAIN m2 : m2[x] = CountOf(m, x) + (IF x = k THEN 1 ELSE 0)

\* The step processes a KeyPress event.
PressStep == presses' = presses + 1

\* Elapsed time from event b to event a is defined and under s seconds; when a
\* is earlier than b there is no elapsed time and the gap counts as too long.
GapUnder(a, b, s) == a.time >= b.time /\ a.time - b.time < s * TicksPerSec

Bigram2(ev) == <<event_to_keystroke(ev[2]), event_to_keystroke(ev[1])>>
Trigram3(ev) ==
    <<event_to_keystroke(ev[3]), event_to_keystroke(ev[2]), event_to_keystroke(ev[1])>>

\* What to_vec must return after the pushes p: newest first, then placeholders.
ExpectedSnapshot(p, dflt) ==
    [k \in 1..3 |-> IF k <= Len(p) THEN p[Len(p) - k + 1] ELSE dflt]

\* C1: after any pushes v1..vn from new(), to_vec() is the last min(n,3) values
\* newest first followed by default placeholders, and a to_vec call returns
\* that and changes neither data nor cursor.
C1_BufferSnapshot ==
    /\ [](ToVec(buf) = ExpectedSnapshot(pushed, 0))
    /\ [][out' # out => (out' = ExpectedSnapshot(pushed, 0) /\ UNCHANGED <<buf, pushed>>)]_vars

C1_Witness ==
    /\ Len(pushed) = MaxPushes
    /\ pushed[Len(pushed)] # pushed[Len(pushed) - 1]
    /\ pushed[Len(pushed) - 1] # pushed[Len(pushed) - 2]
    /\ out = <<pushed[Len(pushed)], pushed[Len(pushed) - 1], pushed[Len(pushed) - 2]>>

\* C2: the sum of all unigram counts equals the number of KeyPress events
\* processed so far; other events add nothing.
C2_UnigramSum == Total(heatmap) = presses

C2_Witness ==
    /\ presses = MaxPresses
    /\ ignored
    /\ Cardinality(DOMAIN heatmap) = 2
    /\ Total(heatmap) = MaxPresses

\* C3: a call with an event that is not a KeyPress leaves the tables, the
\* window, the last-saved time and the file unchanged and attempts no save.
C3_IgnoredFrame ==
    [][ignored' => (UNCHANGED storeVars /\ saveTried' = "no")]_vars

C3_Witness ==
    /\ ignored
    /\ presses >= 1
    /\ save_due(last_save, now)
    /\ saveTried = "no"
    /\ ToVec(ngrams)[1] # DefaultEvent

\* C4: on each accepted press, with snapshot e0 (newest), e1 (previous), the
\* bigram count of (keystroke(e1), keystroke(e0)) is raised by exactly 1 iff the
\* time elapsed from e1 to e0 is strictly less than 2 seconds; otherwise the
\* bigram table is unchanged.
C4_BigramGate ==
    [][PressStep =>
        LET ev == ToVec(ngrams')
        IN  IF GapUnder(ev[1], ev[2], 2)
            THEN IncrementedAt(bigram, bigram', Bigram2(ev))
            ELSE bigram' = bigram]_vars

C4_Witness ==
    LET ev == ToVec(ngrams)
    IN  /\ ~ignored
        /\ ev[1].time - ev[2].time = from_secs(2) - 1
        /\ event_to_keystroke(ev[2]) # event_to_keystroke(ev[1])
        /\ CountOf(bigram, Bigram2(ev)) = 1

\* C5 as stated: when the bigram condition held, the trigram count of
\* (keystroke(e2), keystroke(e1), keystroke(e0)) is raised iff the time elapsed
\* from e2 to e1 is less than 4 seconds.
C5_TrigramWindow4 ==
    [][PressStep =>
        LET ev == ToVec(ngrams')
        IN  GapUnder(ev[1], ev[2], 2) =>
                IF GapUnder(ev[2], ev[3], 4)
                THEN IncrementedAt(trigram, trigram', Trigram3(ev))
                ELSE trigram' = trigram]_vars

\* C5 amended: when the bigram condition held, the trigram count is raised by
\* exactly 1 iff the time elapsed from e2 to e1 is less than 2 seconds
\* (MAX_KEY_DELAY, the bigram's threshold); otherwise the trigram table is
\* unchanged.
C5_TrigramGate ==
    [][PressStep =>
        LET ev == ToVec(ngrams')
        IN  IF GapUnder(ev[1], ev[2], 2) /\ GapUnder(ev[2], ev[3], 2)
            THEN IncrementedAt(trigram, trigram', Trigram3(ev))
            ELSE trigram' = trigram]_vars

C5_Witness ==
    LET ev == ToVec(ngrams)
    IN  /\ ~ignored
        /\ ev[2].time - ev[3].time = from_secs(2) - 1
        /\ ev[1].time >= ev[2].time
        /\ CountOf(trigram, Trigram3(ev)) = 1

\* C6: in every step, a trigram count rises only if the count of the bigram
\* formed by that trigram's last two keystrokes rises in the same step.
C6_TrigramImpliesBigram ==
    [][\A k \in DOMAIN trigram' :
        CountOf(trigram', k) > CountOf(trigram, k) =>
            CountOf(bigram', <<k[2], k[3]>>) > CountOf(bigram, <<k[2], k[3]>>)]_vars

C6_Witness ==
    /\ ~ignored
    /\ presses = 3
    /\ Total(trigram) = 1
    /\ Total(bigram) = 2
    /\ \E k \in DOMAIN trigram : k[2] # k[3]

\* The keystroke of a placeholder slot.
PlaceholderKeystroke == <<Unknown0, "">>

\* C7: the first accepted press records no bigram and no trigram, the second
\* records no trigram, and no bigram or trigram key ever holds a placeholder.
C7_WarmUp ==
    /\ presses <= 1 => (DOMAIN bigram = {} /\ DOMAIN trigram = {})
    /\ presses <= 2 => DOMAIN trigram = {}
    /\ \A k \in DOMAIN bigram : PlaceholderKeystroke \notin {k[1], k[2]}
    /\ \A k \in DOMAIN trigram : PlaceholderKeystroke \notin {k[1], k[2], k[3]}

C7_Witness ==
    /\ presses = 2
    /\ ~ignored
    /\ ToVec(ngrams)[3].time = UNIX_EPOCH
    /\ ToVec(ngrams)[1].time = ToVec(ngrams)[2].time
    /\ Total(bigram) = 1
    /\ DOMAIN trigram = {}

\* C8: when an accepted press is stamped earlier than the event before it in
\* the window, its unigram is still counted and no bigram and no trigram is
\* recorded; when e1 is stamped earlier than e2, no trigram is recorded.
C8_ClockAnomaly ==
    [][PressStep =>
        LET ev == ToVec(ngrams')
        IN  /\ IncrementedAt(heatmap, heatmap', event_to_keystroke(ev[1]))
            /\ ev[1].time < ev[2].time => (bigram' = bigram /\ trigram' = trigram)
            /\ ev[2].time < ev[3].time => trigram' = trigram]_vars

C8_Witness ==
    LET ev == ToVec(ngrams)
    IN  /\ ~ignored
        /\ presses = 2
        /\ ev[1].time < ev[2].time
        /\ Total(heatmap) = 2
        /\ DOMAIN bigram = {}

\* C9: every keystroke that is a component of a bigram key or of a trigram key
\* is a key of the unigram table with count >= 1.
C9_NoOrphan ==
    /\ \A k \in DOMAIN bigram : \A i \in 1..2 : CountOf(heatmap, k[i]) >= 1
    /\ \A k \in DOMAIN trigram : \A i \in 1..3 : CountOf(heatmap, k[i]) >= 1

C9_Witness ==
    /\ saveTried = "ok"
    /\ \E k \in DOMAIN trigram : k[1] # k[3] /\ CountOf(heatmap, k[1]) >= 1
    /\ \E k \in DOMAIN bigram : k[1] # k[2]

\* C10: a press processed when more than 600 s have elapsed since the last
\* successful save attempts a save in that call; a press processed when at
\* most 600 s have elapsed (clock not gone backwards) attempts none.
C10_SaveTrigger ==
    [][PressStep =>
        /\ now - last_save > SAVE_INTERVAL * TicksPerSec => saveTried' # "no"
        /\ (now >= last_save /\ now - last_save <= SAVE_INTERVAL * TicksPerSec)
               => saveTried' = "no"]_vars

\* The tables and the snapshot buffer of a store record.
TablesOf(s) == <<s.heatmap, s.bigram, s.trigram>>

\* A call that attempted a save: the clock is not read anew and the attempt has an outcome.
SaveAttempted == now' = now /\ saveTried' # "no"

\* C11: a save sets last_save to the current time only when creating the file
\* and serializing both succeeded, and the file then holds the store as it was
\* serialized; when either fails the error is the call's outcome, last_save is
\* unchanged, and a direct save leaves the tables and the snapshot buffer
\* unchanged whatever its outcome.
C11_SaveOutcome ==
    [][SaveAttempted =>
        /\ saveTried' = "ok" =>
              /\ last_save' = now
              /\ file' = Written([StoreRec' EXCEPT !.last_save = last_save])
        /\ saveTried' = "err" =>
              /\ last_save' = last_save
              /\ file' \in {file, Truncated}
        /\ presses' = presses => UNCHANGED <<heatmap, bigram, trigram, ngrams>>
      ]_vars

\* A direct save failed while writing: the file is cut short, last_save is not
\* the clock reading, and the tables built by two presses are still there.
C11_Witness ==
    /\ saveTried = "err"
    /\ pending = 0
    /\ file = Truncated
    /\ last_save # now
    /\ presses = 2
    /\ Total(heatmap) = 2

\* A save is due at clock reading nowv for a store last saved at last.
DueAt(last, nowv) == nowv < last \/ (nowv - last) \div TicksPerSec > SAVE_INTERVAL

\* C12 as stated: after a failed save inside process_event, every following
\* accepted press attempts a save until one succeeds.
C12_AlwaysRetried ==
    [][(PressStep /\ pending > 0) => saveTried' # "no"]_vars

\* C12: a failed save inside process_event leaves the press's updates in place
\* and last_save unchanged, so that a save is still due at that clock reading;
\* a following accepted press attempts a save again whenever a save is due at
\* its clock reading, which is every following press if the clock has never
\* gone backwards.
C12_RetryWhileDue ==
    [][PressStep =>
        /\ saveTried' = "err" =>
              /\ last_save' = last_save
              /\ IncrementedAt(heatmap, heatmap', event_to_keystroke(ToVec(ngrams')[1]))
              /\ DueAt(last_save', now')
              /\ pending' = pending + 1
        /\ (pending > 0 /\ (DueAt(last_save, now) \/ ~clockBack)) => saveTried' # "no"
        /\ saveTried' # "no" <=> DueAt(last_save, now)
      ]_vars

\* Two presses in a row attempted a save and failed; both presses are counted.
C12_Witness ==
    /\ pending = 2
    /\ saveTried = "err"
    /\ presses = 2
    /\ Total(heatmap) = 2
    /\ ~clockBack

\* A step of Restart: no press, no clock change, no save attempt.
RestartStep == presses' = presses /\ now' = now /\ saveTried' = "no"

C14_SaveIdempotent ==
    [][(SaveAttempted /\ saveTried' = "ok" /\ presses' = 0
            /\ saveTried = "ok" /\ file.state = "written")
        => FileBytes(file') = FileBytes(file)]_vars

\* A step in which generate_random_keystroke returned a keystroke.
DrawStep == Len(drawn') = Len(drawn) + 1

\* The store the generate command loaded: the one the file was written from.
Loaded == file.content[1]

\* The i-th drawn index counted back from the newest (1 = newest), None if absent.
Back(i) == IF Len(drawn) >= i THEN Some(drawn[Len(drawn) + 1 - i]) ELSE None

\* The weight the tables give index i after the draws made so far: its unigram
\* count, the count of the bigram (newest drawn, i) if one was drawn, and the
\* count of the trigram (second newest, newest, i) if two were drawn.
ExpectedWeight(i) ==
    LET key(j) == gen.keystrokes[j]
    IN  Loaded.heatmap[key(i)]
        + (IF Back(1) # None
           THEN CountOf(Loaded.bigram, <<key(Back(1)[1]), key(i)>>) ELSE 0)
        + (IF Back(2) # None
           THEN CountOf(Loaded.trigram, <<key(Back(2)[1]), key(Back(1)[1]), key(i)>>)
           ELSE 0)

\* C15: at every draw the weights handed to the weighted selection are, index
\* by index, the unigram count plus the bigram count after the newest drawn
\* key plus the trigram count after the two newest drawn keys; with no bigrams
\* and no trigrams they are the unigram counts; the generator's base weights
\* are the unigram counts and a draw does not change them.
C15_DrawWeights ==
    [][DrawStep =>
        /\ DOMAIN lastWeights' = DOMAIN gen.keystrokes
        /\ \A i \in DOMAIN gen.keystrokes : lastWeights'[i] = ExpectedWeight(i)
        /\ (Loaded.bigram = EmptyMap /\ Loaded.trigram = EmptyMap)
              => lastWeights' = gen.weights
        /\ gen'.weights = gen.weights
        /\ \A i \in DOMAIN gen.keystrokes :
              gen.weights[i] = Loaded.heatmap[gen.keystrokes[i]]
      ]_vars

\* A third draw was made with weights above the base weights, from a store
\* holding a trigram.
C15_Witness ==
    /\ Len(drawn) = 3
    /\ Loaded.trigram # EmptyMap
    /\ \E i \in DOMAIN lastWeights : lastWeights[i] >= gen.weights[i] + 2

\* C16: a generator built from a non-empty unigram table never panics in a
\* draw: every weight of every draw is strictly positive, and every drawn
\* index names a keystroke that is a key of that unigram table.
C16_DrawSucceeds ==
    (gen.built /\ Loaded.heatmap # EmptyMap) =>
        /\ ~panicked
        /\ ~DrawPanics(gen)
        /\ \A i \in DOMAIN lastWeights : lastWeights[i] > 0
        /\ \A n \in DOMAIN drawn :
              /\ drawn[n] \in DOMAIN gen.keystrokes
              /\ gen.keystrokes[drawn[n]] \in DOMAIN Loaded.heatmap

\* All draws were made from a store with a single key pressed once.
C16_Witness ==
    /\ Len(drawn) = MaxDraws
    /\ Total(Loaded.heatmap) = 1
    /\ ~panicked

\* C17: both slots start empty; after n draws the slots hold the last
\* min(n, 2) drawn indices, newest first; the second slot is never filled while
\* the first is empty; and the trigram lookup is keyed (older, newer): every
\* trigram (k1, k2, k3) of the store is found under (index of k1, index of k2),
\* which is the pair (second slot, first slot) the draw looks up.
C17_History ==
    /\ gen.preceeding = <<Back(1), Back(2)>>
    /\ gen.preceeding[2] # None => gen.preceeding[1] # None
    /\ gen.built =>
         \A k \in DOMAIN Loaded.trigram :
            \E i1, i2, i3 \in DOMAIN gen.keystrokes :
               /\ k = <<gen.keystrokes[i1], gen.keystrokes[i2], gen.keystrokes[i3]>>
               /\ <<i3, Loaded.trigram[k]>> \in Lookup(gen.trigram_lookup, <<i1, i2>>)
               /\ gen.preceeding = <<Some(i2), Some(i1)>> =>
                     DrawWeights(gen)[i3] >= gen.weights[i3] + Loaded.trigram[k]

\* Three draws, the last two of different keys, from a store holding a trigram.
C17_Witness ==
    /\ Len(drawn) = 3
    /\ drawn[1] = drawn[2]
    /\ drawn[2] # drawn[3]
    /\ gen.preceeding = <<Some(drawn[3]), Some(drawn[2])>>
    /\ Loaded.trigram # EmptyMap

\* C18: a generate run that has started comes to an end: the loop is left or
\* the process stops on a panic.
C18_Terminates == (pc = "loop") ~> (pc = "done" \/ panicked)

\* C19 as stated: on an accepted press a bigram is recorded iff the newest
\* event is at most 2 seconds after the one before it.
C19_InclusiveWindow ==
    [][PressStep =>
        LET ev == ToVec(ngrams')
        IN  (bigram' # bigram) <=>
                (ev[1].time >= ev[2].time /\ ev[1].time - ev[2].time <= from_secs(2))
      ]_vars

\* C19: the bigram window is exclusive: on an accepted press a bigram is
\* recorded iff the newest event is less than 2 seconds after the one before
\* it, and two presses exactly 2 seconds apart record none.
C19_ExclusiveWindow ==
    [][PressStep =>
        LET ev == ToVec(ngrams')
        IN  /\ (bigram' # bigram) <=> GapUnder(ev[1], ev[2], 2)
            /\ ev[1].time - ev[2].time = from_secs(2) => bigram' = bigram
      ]_vars

\* Two presses exactly 2 seconds apart were processed and no bigram exists.
C19_Witness ==
    LET ev == ToVec(ngrams)
    IN  /\ presses = 2
        /\ ~ignored
        /\ ev[2] # DefaultEvent
        /\ ev[1].time - ev[2].time = from_secs(2)
        /\ bigram = EmptyMap

\* C20: in the keymap store, process_event never fails, whatever the order of
\* the timestamps of the press events.
C20_NoHardError == ~panicked

\* Exactly one entry of table m2 is above its count in table m, by exactly 1,
\* and every other entry is the same.
OneUp(m, m2) == \E k \in DOMAIN m2 : IncrementedAt(m, m2, k)

\* Every key of table m is a key of table m2 with a count at least as large.
NoDecrease(m, m2) == \A k \in DOMAIN m : k \in DOMAIN m2 /\ m2[k] >= m[k]

\* C21: each accepted press raises exactly one unigram entry by 1, at most one
\* bigram entry by 1 and at most one trigram entry by 1 and changes no other
\* entry; in every state the trigram counts sum to at most the bigram counts,
\* which sum to at most the unigram counts; and no step lowers a count or
\* removes a key.
C21_TableGrowth ==
    /\ [][PressStep =>
            /\ OneUp(heatmap, heatmap')
            /\ bigram' = bigram \/ OneUp(bigram, bigram')
            /\ trigram' = trigram \/ OneUp(trigram, trigram')]_vars
    /\ [](Total(trigram) <= Total(bigram) /\ Total(bigram) <= Total(heatmap))
    /\ [][/\ NoDecrease(heatmap, heatmap')
          /\ NoDecrease(bigram, bigram')
          /\ NoDecrease(trigram, trigram')]_vars

\* Three presses were processed: the first raised only a unigram, the second a
\* bigram too, the third all three tables.
C21_Witness ==
    /\ presses = 3
    /\ Total(heatmap) = 3
    /\ Total(bigram) = 2
    /\ Total(trigram) = 1

====
